---- MODULE Spec2Model ----
(***************************************************************************)
(* Wallpaper rotation: the history cache and the selection / rotation      *)
(* engine of wallpaper_manager.                                            *)
(*                                                                         *)
(* The sources hold two implementations of the history cache:              *)
(*   - WallpaperRotator (core.py) keeps a dict `cache` with the keys       *)
(*     last_wallpaper, last_lock_screen, last_wallpaper_change,            *)
(*     last_lock_screen_change, wallpaper_history, lock_screen_history;    *)
(*   - WallpaperCache (wallpaper_cache.py) keeps two lists of              *)
(*     WallpaperChange records.                                            *)
(* A process works with one of them (variable `instance`).  Both read and  *)
(* rewrite one JSON cache file (variable `file`).                          *)
(*                                                                         *)
(* Time is counted in hours of local time since the epoch: one day is      *)
(* DayLength = 24 units, so `min_days * 24 * 3600` seconds is              *)
(* min_days * DayLength.  Reading and removing the cache file are taken to *)
(* succeed; writing it can fail (save / _save_cache catch OSError).        *)
(*                                                                         *)
(* The rotator's cache file lies in its image directory, so a run stays    *)
(* with the directory it first works on.  The callers of the rotator pass  *)
(* their current "min days" setting, which can change between calls.       *)
(*                                                                         *)
(* Specifications:                                                         *)
(*   Spec       one process, rotator or store, on any cache file;          *)
(*   SpecEmpty  the same, started without a cache file;                    *)
(*   SpecTrunc  a long run of one track, past the history limit;           *)
(*   SpecFn     the pure functions, applied to drawn arguments;            *)
(*   SpecRace   two processes on one cache file;                           *)
(*   SpecLive   a scheduled rotation retried as time passes (with          *)
(*              fairness).                                                 *)
(***************************************************************************)
EXTENDS Integers, Sequences, FiniteSets, TLC

\* ---------------------------------------------------------------- bounds
MaxClock == 40
MaxMinDays == 2
MaxEntries == 2
MaxBurst == 105
MaxSide == 8
MaxInstant == 72
MaxTrack == 3
MaxStamp == 2

\* ------------------------------------------------------ program constants
HistoryLimit == 100
DayLength == 24
CutoffHour == 18

\* ------------------------------------------------------------ enumerations
ChangeSource == {"MANUAL", "AUTOMATED", "UNKNOWN"}
ScalingMode == {"FILL", "FIT", "STRETCH", "AUTO"}
WallpaperType == {"WALLPAPER", "LOCK_SCREEN"}

\* Python's None / a present value (Optional[...]).
None == <<>>
Some(v) == <<v>>

\* ------------------------------------------------------- image directory
\* Entries a directory can hold: path, suffix as glob sees it, whether it
\* is a regular file, whether it lies in a subdirectory, and the pixel size
\* PIL reads (<<>> when unreadable).
DirEntries ==
  { [path |-> "a.jpg", suffix |-> ".jpg", is_file |-> TRUE, nested |-> FALSE,
     size |-> <<300, 600>>],
    [path |-> "b.PNG", suffix |-> ".PNG", is_file |-> TRUE, nested |-> FALSE,
     size |-> <<600, 300>>],
    [path |-> "n.txt", suffix |-> ".txt", is_file |-> TRUE, nested |-> FALSE,
     size |-> <<>>],
    [path |-> "c.Jpg", suffix |-> ".Jpg", is_file |-> TRUE, nested |-> FALSE,
     size |-> <<600, 300>>],
    [path |-> "d.bmp", suffix |-> ".bmp", is_file |-> FALSE, nested |-> FALSE,
     size |-> <<>>],
    [path |-> "d.bmp/e.jpeg", suffix |-> ".jpeg", is_file |-> TRUE, nested |-> TRUE,
     size |-> <<300, 600>>] }

Entry(p) == CHOOSE e \in DirEntries : e.path = p

Directories ==
  { {"n.txt"},
    {"a.jpg", "n.txt"},
    {"a.jpg", "b.PNG"} }

supported_formats == {".jpg", ".jpeg", ".png", ".bmp"}

upper(ext) ==
  CASE ext = ".jpg" -> ".JPG"
    [] ext = ".jpeg" -> ".JPEG"
    [] ext = ".png" -> ".PNG"
    [] ext = ".bmp" -> ".BMP"

\* image_dir.glob('*' + pattern): the entries directly inside the directory
\* whose name ends with pattern, letter case as written.
glob(dir, pattern) == { p \in dir : ~Entry(p).nested /\ Entry(p).suffix = pattern }

\* WallpaperRotator.get_available_images (as a set of paths).
get_available_images(dir) ==
  { p \in UNION { glob(dir, ext) \cup glob(dir, upper(ext)) : ext \in supported_formats } :
      Entry(p).is_file }

\* Mutant of scaling_mode_of: a square image counts as portrait.
scaling_mode_of_square_as_portrait(size) ==
  IF size # <<>> /\ size[1] <= size[2] THEN "FIT" ELSE "FILL"

\* The body of get_scaling_mode on what Image.open(...).size gives: <<width,
\* height>>, or <<>> when PIL is missing or the file cannot be read.
scaling_mode_of(size) ==
  IF size # <<>> /\ size[1] < size[2] THEN "FIT" ELSE "FILL"

\* get_scaling_mode: FIT when the size is readable and width < height.
get_scaling_mode(image_path) == scaling_mode_of(Entry(image_path).size)

\* ------------------------------------------------------------ cache file
\* Contents of the cache file: absent, text json.load rejects, a JSON array,
\* or a JSON object.  In an object a history key holds a JSON list
\* (JList) or a value of another type (JNull).
NoFile == [exists |-> FALSE]
Unparseable == [exists |-> TRUE, json |-> "invalid"]
JsonArray == [exists |-> TRUE, json |-> "array"]
JsonObject(d) == [exists |-> TRUE, json |-> "object", doc |-> d]

JList(items) == [type |-> "list", items |-> items]
JNull == [type |-> "null"]
IsList(v) == v.type = "list"

Get(d, key, default) == IF key \in DOMAIN d THEN d[key] ELSE default

\* -------------------------------------------------------------- time gate
hour(t) == t % DayLength
StartOfDay(t) == t - hour(t)

\* Mutant of adjust_rotation_time: 18:00 itself still snaps down.
adjust_rotation_time_cutoff_inclusive(next_rotation_dt) ==
  IF hour(next_rotation_dt) <= CutoffHour
  THEN StartOfDay(next_rotation_dt)
  ELSE StartOfDay(next_rotation_dt + DayLength)

\* _adjust_rotation_time
adjust_rotation_time(next_rotation_dt) ==
  IF hour(next_rotation_dt) < CutoffHour
  THEN StartOfDay(next_rotation_dt)
  ELSE StartOfDay(next_rotation_dt + DayLength)

\* Mutant of LastEntries: [:HistoryLimit], the oldest entries are kept.
LastEntries_keeps_first(s) ==
  IF Len(s) <= HistoryLimit THEN s ELSE SubSeq(s, 1, HistoryLimit)

\* [-HistoryLimit:] of a list
LastEntries(s) ==
  IF Len(s) <= HistoryLimit THEN s ELSE SubSeq(s, Len(s) - HistoryLimit + 1, Len(s))

\* ------------------------------------------------------------------ state
VARIABLES
  clock,                \* current local time (time.time() / datetime.now()), hours
  dir,                  \* names in the image directory the rotator was given
  min_days,             \* the caller's "min days between repeats" setting
  file,                 \* contents of the cache file on disk
  instance,             \* "none", "WallpaperRotator" or "WallpaperCache"
  cache,                \* WallpaperRotator.cache (dict)
  wallpaper_history,    \* WallpaperCache._wallpaper_history
  lock_screen_history,  \* WallpaperCache._lock_screen_history
  added,                \* per track: every entry the instance's track was given, in order
  applied,              \* the call the last operation made to the platform setter, if any
  call,                 \* the last operation invoked and its arguments
  result,               \* how the last operation ended
  procs,                \* concurrent processes on one cache file: position and memory of each
  writes                \* the saves of those processes, in the order they happened

vars == <<clock, dir, min_days, file, instance, cache, wallpaper_history,
          lock_screen_history, added, applied, call, result, procs, writes>>

\* Outcomes of `with open(cache_file, 'w') as f: json.dump(...)`: written;
\* open() raised OSError (file untouched); the write raised OSError after
\* open() truncated the file (a truncated document is left behind).
SaveOutcomes == {"ok", "open_failed", "write_failed"}

\* Mutant of WriteFile: nothing is written.
WriteFile_skipped(old, new, outcome) == old

WriteFile(old, new, outcome) ==
  CASE outcome = "ok" -> new
    [] outcome = "open_failed" -> old
    [] outcome = "write_failed" -> Unparseable

\* --------------------------------------------- WallpaperRotator (core.py)
required_keys ==
  { "last_wallpaper", "last_lock_screen", "last_wallpaper_change",
    "last_lock_screen_change", "wallpaper_history", "lock_screen_history" }

Rotator_create_new_cache ==
  [ last_wallpaper |-> None, last_lock_screen |-> None,
    last_wallpaper_change |-> None, last_lock_screen_change |-> None,
    wallpaper_history |-> <<>>, lock_screen_history |-> <<>> ]

\* Mutant of HistoryKey: both tracks are kept in one list.
HistoryKey_shared(track) == "wallpaper_history"

HistoryKey(track) == IF track = "WALLPAPER" THEN "wallpaper_history" ELSE "lock_screen_history"
LastKey(track) == IF track = "WALLPAPER" THEN "last_wallpaper" ELSE "last_lock_screen"

\* Mutant of ChangeKey: both gates read the wallpaper's last change.
ChangeKey_shared(track) == "last_wallpaper_change"

ChangeKey(track) == IF track = "WALLPAPER" THEN "last_wallpaper_change" ELSE "last_lock_screen_change"

\* json.load / json.dump of the rotator's dict: lists <-> JSON lists.
json_load(doc) ==
  [ k \in DOMAIN doc |->
      IF k \in {"wallpaper_history", "lock_screen_history"} THEN doc[k].items ELSE doc[k] ]

json_dump(c) ==
  JsonObject([ k \in DOMAIN c |->
      IF k \in {"wallpaper_history", "lock_screen_history"} THEN JList(c[k]) ELSE c[k] ])

\* WallpaperRotator._load_cache: the cache it returns and the file it leaves.
\* (`key in cache` on a JSON array finds no key.)
Rotator_load_cache(f) ==
  IF ~f.exists THEN [cache |-> Rotator_create_new_cache, file |-> f]
  ELSE IF f.json = "invalid" THEN [cache |-> Rotator_create_new_cache, file |-> NoFile]
  ELSE IF f.json = "array" THEN [cache |-> Rotator_create_new_cache, file |-> NoFile]
  ELSE IF ~(required_keys \subseteq DOMAIN f.doc)
       THEN [cache |-> Rotator_create_new_cache, file |-> NoFile]
  ELSE [cache |-> json_load(f.doc), file |-> f]

\* recent_wallpapers / recent_lock_screens
recent_paths(history, current_time, min_days_between_repeats) ==
  { history[i].path : i \in { j \in 1..Len(history) :
        current_time - history[j].timestamp < min_days_between_repeats * DayLength } }

\* Mutant of eligible_images: no fallback when every image is recent.
eligible_images_no_fallback(available_images, recent) == available_images \ recent

\* Mutant of eligible_images: recent images are not filtered out.
eligible_images_unfiltered(available_images, recent) == available_images

\* eligible_images, with the fallback to every available image
eligible_images(available_images, recent) ==
  LET eligible == available_images \ recent
  IN IF eligible = {} THEN available_images ELSE eligible

\* Mutant of Rotator_record: the time of the change is not stored.
Rotator_record_without_change_time(c, track, selected_image, current_time) ==
  [ c EXCEPT ![LastKey(track)] = Some(selected_image),
             ![HistoryKey(track)] =
                LastEntries(Append(@, [path |-> selected_image, timestamp |-> current_time])) ]

\* Mutant of Rotator_record: the last_* keys are set, the history is not.
Rotator_record_without_history(c, track, selected_image, current_time) ==
  [ c EXCEPT ![LastKey(track)] = Some(selected_image),
             ![ChangeKey(track)] = Some(current_time) ]

\* "Update cache" of select_next_*: the dict after recording selected_image.
Rotator_record(c, track, selected_image, current_time) ==
  [ c EXCEPT ![LastKey(track)] = Some(selected_image),
             ![ChangeKey(track)] = Some(current_time),
             ![HistoryKey(track)] =
                LastEntries(Append(@, [path |-> selected_image, timestamp |-> current_time])) ]

\* Every way select_next_* can end on cache c with file f and a directory
\* (image_dir, given by its entries) that holds an image: the random pick and the outcome of _save_cache.  (random.choice
\* of an empty list raises IndexError: the set is then empty.)
SelectOutcomes(image_dir, c, f, track, min_days_between_repeats) ==
  LET available_images == get_available_images(image_dir)
      recent == recent_paths(c[HistoryKey(track)], clock, min_days_between_repeats)
  IN { [ cache |-> Rotator_record(c, track, po[1], clock),
         file |-> WriteFile(f, json_dump(Rotator_record(c, track, po[1], clock)), po[2]),
         selected |-> po[1],
         saved |-> po[2] ] :
       po \in eligible_images(available_images, recent) \X SaveOutcomes }

\* Mutant of NoImages: the empty list is not checked for.
NoImages_unchecked(image_dir) == FALSE

\* `if not available_images: raise ValueError`
NoImages(image_dir) == get_available_images(image_dir) = {}

Raised(error) == [status |-> "raised", error |-> error]
Returned(value, saved) == [status |-> "returned", value |-> value, saved |-> saved]

\* WallpaperRotator.__init__ (image_dir is given by the entries it holds)
NewRotator(image_dir) ==
  /\ instance \in {"none", "WallpaperRotator"}
  /\ dir' = image_dir
  /\ LET ld == Rotator_load_cache(file)
     IN /\ cache' = ld.cache
        /\ file' = ld.file
        /\ added' = [WALLPAPER |-> ld.cache.wallpaper_history,
                     LOCK_SCREEN |-> ld.cache.lock_screen_history]
  /\ instance' = "WallpaperRotator"
  /\ call' = [op |-> "WallpaperRotator"]
  /\ result' = [status |-> "constructed"]
  /\ applied' = None
  /\ UNCHANGED <<clock, min_days, wallpaper_history, lock_screen_history>>

\* select_next_wallpaper / select_next_lock_screen on the current rotator
SelectNext(track, op, min_days_between_repeats) ==
  /\ instance = "WallpaperRotator"
  /\ call' = [op |-> op, min_days |-> min_days_between_repeats]
  /\ IF NoImages(dir)
     THEN /\ result' = Raised("ValueError")
          /\ UNCHANGED <<cache, file, added>>
     ELSE IF SelectOutcomes(dir, cache, file, track, min_days_between_repeats) = {}
     THEN /\ result' = Raised("IndexError")
          /\ UNCHANGED <<cache, file, added>>
     ELSE \E out \in SelectOutcomes(dir, cache, file, track, min_days_between_repeats) :
            /\ cache' = out.cache
            /\ file' = out.file
            /\ added' = [added EXCEPT ![track] =
                           Append(@, [path |-> out.selected, timestamp |-> clock])]
            /\ result' = Returned(out.selected, out.saved)
  /\ applied' = None
  /\ UNCHANGED <<clock, dir, min_days, instance, wallpaper_history, lock_screen_history>>

select_next_wallpaper(min_days_between_repeats) ==
  SelectNext("WALLPAPER", "select_next_wallpaper", min_days_between_repeats)

select_next_lock_screen(min_days_between_repeats) ==
  SelectNext("LOCK_SCREEN", "select_next_lock_screen", min_days_between_repeats)

\* Mutant of next_rotation_dt: the instant is always moved to the start of
\* the following day.
next_rotation_dt_always_next_day(last_change, min_days_between_repeats) ==
  StartOfDay(last_change + min_days_between_repeats * DayLength) + DayLength

\* The instant the gate of rotate_* compares the current time against.
next_rotation_dt(last_change, min_days_between_repeats) ==
  adjust_rotation_time(last_change + min_days_between_repeats * DayLength)

\* Mutant of GateSkips: the gate compares against last change + N days without
\* normalising it to a day boundary.
GateSkips_unadjusted(c, track, min_days_between_repeats, force) ==
  /\ ~force
  /\ c[ChangeKey(track)] # None
  /\ clock < c[ChangeKey(track)][1] + min_days_between_repeats * DayLength

\* Mutant of GateSkips: a track that never changed counts as changed at the
\* epoch (timestamp 0).
GateSkips_epoch_without_history(c, track, min_days_between_repeats, force) ==
  /\ ~force
  /\ clock < next_rotation_dt(IF c[ChangeKey(track)] = None THEN 0 ELSE c[ChangeKey(track)][1],
                               min_days_between_repeats)

\* Mutant of GateSkips: the N days are counted from the current time.
GateSkips_counting_from_now(c, track, min_days_between_repeats, force) ==
  /\ ~force
  /\ c[ChangeKey(track)] # None
  /\ clock < next_rotation_dt(clock, min_days_between_repeats)

\* Mutant of GateSkips: force is not consulted.
GateSkips_ignoring_force(c, track, min_days_between_repeats, force) ==
  /\ c[ChangeKey(track)] # None
  /\ clock < next_rotation_dt(c[ChangeKey(track)][1], min_days_between_repeats)

\* `if not force and cache[last_*_change] is not None ... if current_dt < next_rotation_dt`
GateSkips(c, track, min_days_between_repeats, force) ==
  /\ ~force
  /\ c[ChangeKey(track)] # None
  /\ clock < next_rotation_dt(c[ChangeKey(track)][1], min_days_between_repeats)

\* The call rotate_* makes to the setter: set_wallpaper(path) resolves the
\* scaling mode with get_scaling_mode(path); set_lock_screen(path) has none.
SetterCall(track, image_path, ok) ==
  IF track = "WALLPAPER"
  THEN [target |-> track, path |-> image_path,
        scaling_mode |-> get_scaling_mode(image_path), ok |-> ok]
  ELSE [target |-> track, path |-> image_path, ok |-> ok]

\* rotate_wallpaper / rotate_lock_screen: a new rotator, the gate, the
\* selection, then the setter (which ends the process on failure).
Rotate(track, op, image_dir, min_days_between_repeats, force) ==
  /\ instance \in {"none", "WallpaperRotator"}
  /\ instance' = "WallpaperRotator"
  /\ dir' = image_dir
  /\ call' = [op |-> op, min_days |-> min_days_between_repeats, force |-> force]
  /\ LET ld == Rotator_load_cache(file)
         loaded == [WALLPAPER |-> ld.cache.wallpaper_history,
                    LOCK_SCREEN |-> ld.cache.lock_screen_history]
     IN IF GateSkips(ld.cache, track, min_days_between_repeats, force)
        THEN /\ cache' = ld.cache
             /\ file' = ld.file
             /\ added' = loaded
             /\ result' = [status |-> "skipped"]
             /\ applied' = None
        ELSE IF NoImages(image_dir)
        THEN /\ cache' = ld.cache
             /\ file' = ld.file
             /\ added' = loaded
             /\ result' = Raised("ValueError")
             /\ applied' = None
        ELSE IF SelectOutcomes(image_dir, ld.cache, ld.file, track, min_days_between_repeats) = {}
        THEN /\ cache' = ld.cache
             /\ file' = ld.file
             /\ added' = loaded
             /\ result' = Raised("IndexError")
             /\ applied' = None
        ELSE \E out \in SelectOutcomes(image_dir, ld.cache, ld.file, track, min_days_between_repeats),
                ok \in BOOLEAN :
               /\ cache' = out.cache
               /\ file' = out.file
               /\ added' = [loaded EXCEPT ![track] =
                              Append(@, [path |-> out.selected, timestamp |-> clock])]
               /\ applied' = Some(SetterCall(track, out.selected, ok))
               /\ result' = IF ok THEN Returned(out.selected, out.saved)
                                  ELSE [status |-> "exited", value |-> out.selected,
                                        saved |-> out.saved]
  /\ UNCHANGED <<clock, min_days, wallpaper_history, lock_screen_history>>

rotate_wallpaper(image_dir, min_days_between_repeats, force) ==
  Rotate("WALLPAPER", "rotate_wallpaper", image_dir, min_days_between_repeats, force)

rotate_lock_screen(image_dir, min_days_between_repeats, force) ==
  Rotate("LOCK_SCREEN", "rotate_lock_screen", image_dir, min_days_between_repeats, force)

\* ------------------------------------------ WallpaperChange (wallpaper_cache.py)
\* from_dict raises KeyError: data['path'], data['timestamp'],
\* ChangeSource[name], ScalingMode[name].
from_dict_raises(data) ==
  \/ "path" \notin DOMAIN data
  \/ "timestamp" \notin DOMAIN data
  \/ Get(data, "source", "UNKNOWN") \notin ChangeSource
  \/ Get(data, "scaling_mode", "AUTO") \notin ScalingMode

from_dict(data, _type) ==
  [ path |-> data.path,
    timestamp |-> data.timestamp,
    type |-> _type,
    source |-> Get(data, "source", "UNKNOWN"),
    scaling_mode |-> Get(data, "scaling_mode", "AUTO") ]

\* Mutant of to_dict: the scaling mode is not written.
to_dict_without_scaling_mode(change) ==
  [ path |-> change.path,
    timestamp |-> change.timestamp,
    source |-> change.source ]

to_dict(change) ==
  [ path |-> change.path,
    timestamp |-> change.timestamp,
    source |-> change.source,
    scaling_mode |-> change.scaling_mode ]

WallpaperChange(path, timestamp, type, source, scaling_mode) ==
  [ path |-> path, timestamp |-> timestamp, type |-> type,
    source |-> source, scaling_mode |-> scaling_mode ]

\* ------------------------------------------- WallpaperCache (wallpaper_cache.py)
Cache_create_new_cache ==
  [ wallpaper_history |-> JList(<<>>), lock_screen_history |-> JList(<<>>) ]

\* _normalize_cache on a JSON object: a missing key or a key that is not a
\* list gets the default; everything else is kept.
normalize_cache(doc) ==
  [ k \in DOMAIN doc \cup DOMAIN Cache_create_new_cache |->
      IF k \in DOMAIN Cache_create_new_cache /\ (k \notin DOMAIN doc \/ ~IsList(doc[k]))
      THEN Cache_create_new_cache[k]
      ELSE doc[k] ]

\* WallpaperCache._load_cache: the dict it returns and the file it leaves, or
\* the exception that escapes it (`cache[key] = default` on a JSON array is a
\* TypeError, which the except clause does not name).
Cache_load_cache(f) ==
  IF ~f.exists THEN [raised |-> FALSE, cache |-> Cache_create_new_cache, file |-> f]
  ELSE IF f.json = "invalid"
       THEN [raised |-> FALSE, cache |-> Cache_create_new_cache, file |-> NoFile]
  ELSE IF f.json = "array" THEN [raised |-> TRUE, error |-> "TypeError", file |-> f]
  ELSE [raised |-> FALSE, cache |-> normalize_cache(f.doc), file |-> f]

\* _rebuild_state: from_dict over both lists; a KeyError escapes.
rebuild_raises(c) ==
  \E k \in DOMAIN Cache_create_new_cache :
    \E i \in 1..Len(c[k].items) : from_dict_raises(c[k].items[i])

rebuild(items, _type) == [ i \in 1..Len(items) |-> from_dict(items[i], _type) ]

\* cache_data of save()
cache_data(wh, lh) ==
  JsonObject([ wallpaper_history |-> JList([ i \in 1..Len(wh) |-> to_dict(wh[i]) ]),
               lock_screen_history |-> JList([ i \in 1..Len(lh) |-> to_dict(lh[i]) ]) ])

\* WallpaperCache.__init__ run on file f: what the constructor yields.
Construct(f) ==
  LET ld == Cache_load_cache(f)
  IN IF ld.raised THEN [raised |-> TRUE, error |-> ld.error, file |-> ld.file]
     ELSE IF rebuild_raises(ld.cache) THEN [raised |-> TRUE, error |-> "KeyError", file |-> ld.file]
     ELSE [ raised |-> FALSE, file |-> ld.file,
            wallpaper_history |-> rebuild(ld.cache.wallpaper_history.items, "WALLPAPER"),
            lock_screen_history |-> rebuild(ld.cache.lock_screen_history.items, "LOCK_SCREEN") ]

\* WallpaperCache.__init__
NewCache ==
  /\ instance \in {"none", "WallpaperCache"}
  /\ call' = [op |-> "WallpaperCache"]
  /\ LET c == Construct(file)
     IN /\ file' = c.file
        /\ IF c.raised
           THEN /\ instance' = "none"
                /\ wallpaper_history' = <<>>
                /\ lock_screen_history' = <<>>
                /\ added' = [WALLPAPER |-> <<>>, LOCK_SCREEN |-> <<>>]
                /\ result' = Raised(c.error)
           ELSE /\ instance' = "WallpaperCache"
                /\ wallpaper_history' = c.wallpaper_history
                /\ lock_screen_history' = c.lock_screen_history
                /\ added' = [WALLPAPER |-> c.wallpaper_history,
                             LOCK_SCREEN |-> c.lock_screen_history]
                /\ result' = [status |-> "constructed"]
  /\ applied' = None
  /\ UNCHANGED <<clock, dir, min_days, cache>>

has_wallpaper_history == wallpaper_history # <<>>
has_lock_screen_history == lock_screen_history # <<>>

\* Mutant of max_by_timestamp: the first record of the list.
max_by_timestamp_first_record(history) == history[1]

\* max(history, key=lambda x: x.timestamp): the first record, in list order,
\* that no record exceeds.
max_by_timestamp(history) ==
  history[CHOOSE i \in 1..Len(history) :
            /\ \A j \in 1..Len(history) : history[j].timestamp <= history[i].timestamp
            /\ \A j \in 1..(i - 1) : history[j].timestamp < history[i].timestamp]

\* WallpaperCache.last_wallpaper / last_lock_screen of a store whose track
\* holds history
last_change(history, type) ==
  IF history = <<>>
  THEN WallpaperChange("", 0, type, "UNKNOWN", "AUTO")
  ELSE max_by_timestamp(history)

last_wallpaper == last_change(wallpaper_history, "WALLPAPER")
last_lock_screen == last_change(lock_screen_history, "LOCK_SCREEN")
last_wallpaper_change == last_wallpaper.timestamp
last_lock_screen_change == last_lock_screen.timestamp
last_wallpaper_path == last_wallpaper.path
last_lock_screen_path == last_lock_screen.path

\* WallpaperCache.save
save ==
  /\ instance = "WallpaperCache"
  /\ call' = [op |-> "save"]
  /\ \E outcome \in SaveOutcomes :
       /\ file' = WriteFile(file, cache_data(wallpaper_history, lock_screen_history), outcome)
       /\ result' = Returned("", outcome)
  /\ applied' = None
  /\ UNCHANGED <<clock, dir, min_days, instance, cache, wallpaper_history, lock_screen_history, added>>

\* Mutant of add_wallpaper_to_history: the entry is stamped by a clock that
\* runs backwards.
add_wallpaper_to_history_clock_backwards(path, source, scaling_mode) ==
  /\ instance = "WallpaperCache"
  /\ call' = [op |-> "add_wallpaper_to_history", path |-> path, source |-> source,
              scaling_mode |-> scaling_mode]
  /\ LET change == WallpaperChange(path, MaxClock - clock, "WALLPAPER", source, scaling_mode)
     IN /\ wallpaper_history' = LastEntries(Append(wallpaper_history, change))
        /\ added' = [added EXCEPT !.WALLPAPER = Append(@, change)]
  /\ UNCHANGED lock_screen_history
  /\ \E outcome \in SaveOutcomes :
       /\ file' = WriteFile(file, cache_data(wallpaper_history', lock_screen_history'), outcome)
       /\ result' = Returned("", outcome)
  /\ applied' = None
  /\ UNCHANGED <<clock, dir, min_days, instance, cache>>

\* WallpaperCache.add_wallpaper_to_history
add_wallpaper_to_history(path, source, scaling_mode) ==
  /\ instance = "WallpaperCache"
  /\ call' = [op |-> "add_wallpaper_to_history", path |-> path, source |-> source,
              scaling_mode |-> scaling_mode]
  /\ LET change == WallpaperChange(path, clock, "WALLPAPER", source, scaling_mode)
     IN /\ wallpaper_history' = LastEntries(Append(wallpaper_history, change))
        /\ added' = [added EXCEPT !.WALLPAPER = Append(@, change)]
  /\ UNCHANGED lock_screen_history
  /\ \E outcome \in SaveOutcomes :
       /\ file' = WriteFile(file, cache_data(wallpaper_history', lock_screen_history'), outcome)
       /\ result' = Returned("", outcome)
  /\ applied' = None
  /\ UNCHANGED <<clock, dir, min_days, instance, cache>>

\* WallpaperCache.add_lock_screen_to_history
add_lock_screen_to_history(path, source, scaling_mode) ==
  /\ instance = "WallpaperCache"
  /\ call' = [op |-> "add_lock_screen_to_history", path |-> path, source |-> source,
              scaling_mode |-> scaling_mode]
  /\ LET change == WallpaperChange(path, clock, "LOCK_SCREEN", source, scaling_mode)
     IN /\ lock_screen_history' = LastEntries(Append(lock_screen_history, change))
        /\ added' = [added EXCEPT !.LOCK_SCREEN = Append(@, change)]
  /\ UNCHANGED wallpaper_history
  /\ \E outcome \in SaveOutcomes :
       /\ file' = WriteFile(file, cache_data(wallpaper_history', lock_screen_history'), outcome)
       /\ result' = Returned("", outcome)
  /\ applied' = None
  /\ UNCHANGED <<clock, dir, min_days, instance, cache>>

\* Mutant of next_rotation_time: last change + N days, not normalised to a
\* day boundary.
next_rotation_time_unadjusted(history, type, min_days_between_repeats) ==
  IF history = <<>> THEN None
  ELSE Some(last_change(history, type).timestamp + min_days_between_repeats * DayLength)

\* WallpaperCache.get_next_rotation_time as the store answers it: nothing for
\* a track without history, else the gate's instant for the track's last
\* change.
next_rotation_time(history, type, min_days_between_repeats) ==
  IF history = <<>> THEN None
  ELSE Some(next_rotation_dt(last_change(history, type).timestamp, min_days_between_repeats))

\* WallpaperCache.get_next_rotation_time(min_days_between_repeats, wallpaper_type)
get_next_rotation_time(min_days_between_repeats, wallpaper_type) ==
  /\ instance = "WallpaperCache"
  /\ call' = [op |-> "get_next_rotation_time",
              min_days_between_repeats |-> min_days_between_repeats,
              wallpaper_type |-> wallpaper_type]
  /\ result' = [status |-> "returned",
                value |-> next_rotation_time(
                            IF wallpaper_type = "WALLPAPER" THEN wallpaper_history
                                                            ELSE lock_screen_history,
                            wallpaper_type, min_days_between_repeats)]
  /\ applied' = None
  /\ UNCHANGED <<clock, dir, min_days, file, instance, cache, wallpaper_history,
                 lock_screen_history, added>>

\* ------------------------------------------------------------ environment
\* Time passes.
TickSteps == {20, 24}

Tick ==
  /\ \E d \in TickSteps : clock' = clock + d
  /\ call' = [op |-> "tick"]
  /\ result' = [status |-> "none"]
  /\ applied' = None
  /\ UNCHANGED <<dir, min_days, file, instance, cache, wallpaper_history, lock_screen_history, added>>

\* The caller's setting changes (--min-days of the script, the spin box of
\* the window that holds the rotator).
MinDays == 0..MaxMinDays

SetMinDays ==
  /\ instance = "WallpaperRotator"
  /\ \E n \in MinDays \ {min_days} : min_days' = n
  /\ call' = [op |-> "min_days"]
  /\ result' = [status |-> "none"]
  /\ applied' = None
  /\ UNCHANGED <<clock, dir, file, instance, cache, wallpaper_history, lock_screen_history, added>>

\* ---------------------------------------------------------- initial state
\* Cache files a process can find: none, a truncated document, a JSON array,
\* objects of the WallpaperCache layout (well-formed or not), and an object
\* of the WallpaperRotator layout.  (A JSON scalar is not among them.)
InitFiles ==
  { NoFile,
    Unparseable,
    JsonArray,
    JsonObject([lock_screen_history |-> JList(<<[path |-> "b.PNG", timestamp |-> 0]>>)]),
    JsonObject([wallpaper_history |-> JNull,
                lock_screen_history |-> JList(<<>>)]),
    JsonObject([wallpaper_history |-> JList(<<[timestamp |-> 0, source |-> "MANUAL"]>>),
                lock_screen_history |-> JList(<<>>)]),
    JsonObject([wallpaper_history |-> JList(<<[path |-> "a.jpg", timestamp |-> 0,
                                              source |-> "SCRIPT", scaling_mode |-> "FIT"]>>),
                lock_screen_history |-> JList(<<>>)]),
    JsonObject([wallpaper_history |-> JList(<<[path |-> "a.jpg", timestamp |-> 0,
                                              source |-> "AUTOMATED", scaling_mode |-> "FIT"]>>),
                lock_screen_history |-> JList(<<>>)]),
    json_dump(Rotator_record(Rotator_create_new_cache, "WALLPAPER", "a.jpg", 0)) }

Init ==
  /\ clock = 0
  /\ dir = {}
  /\ min_days = 1
  /\ file \in InitFiles
  /\ instance = "none"
  /\ cache = Rotator_create_new_cache
  /\ wallpaper_history = <<>>
  /\ lock_screen_history = <<>>
  /\ added = [WALLPAPER |-> <<>>, LOCK_SCREEN |-> <<>>]
  /\ applied = None
  /\ call = [op |-> "none"]
  /\ result = [status |-> "none"]
  /\ procs = <<>>
  /\ writes = <<>>

\* ------------------------------------------------------------ next state
\* Arguments the callers of add_*_to_history pass: path, source, scaling mode.
AddInputs ==
  { <<"a.jpg", "MANUAL", "FIT">>,
    <<"b.PNG", "AUTOMATED", "FILL">>,
    <<"a.jpg", "UNKNOWN", "AUTO">> }

\* The run stays within the bounds of the model.
WithinBounds ==
  /\ clock <= MaxClock
  /\ Len(cache.wallpaper_history) + Len(cache.lock_screen_history) <= MaxEntries
  /\ Len(wallpaper_history) + Len(lock_screen_history) <= MaxEntries

\* The cache file lies in the image directory: the directory a run first
\* works on is the one it stays with.
ImageDirs == IF instance = "none" THEN Directories ELSE {dir}

RotatorNext ==
  \/ \E d \in ImageDirs : NewRotator(d)
  \/ select_next_wallpaper(min_days)
  \/ select_next_lock_screen(min_days)
  \/ \E d \in ImageDirs, force \in BOOLEAN : rotate_wallpaper(d, min_days, force)
  \/ \E d \in ImageDirs, force \in BOOLEAN : rotate_lock_screen(d, min_days, force)

CacheNext ==
  \/ NewCache
  \/ save
  \/ \E a \in AddInputs : add_wallpaper_to_history(a[1], a[2], a[3])
  \/ \E a \in AddInputs : add_lock_screen_to_history(a[1], a[2], a[3])
  \/ \E n \in MinDays, t \in WallpaperType : get_next_rotation_time(n, t)

Next ==
  /\ Tick \/ SetMinDays \/ RotatorNext \/ CacheNext
  /\ WithinBounds'
  /\ UNCHANGED <<procs, writes>>

Spec == Init /\ [][Next]_vars

\* The same program started in a directory that has no cache file yet.
InitEmpty ==
  /\ Init
  /\ file = NoFile

SpecEmpty == InitEmpty /\ [][Next]_vars

\* ------------------------------------------------- a long run of one track
\* One caller fills one track: an hour passes, then it records an entry, up
\* to MaxBurst times, every write succeeding.
BurstInputs ==
  << <<"a.jpg", "MANUAL", "FIT">>, <<"b.PNG", "AUTOMATED", "FILL">>,
     <<"a.jpg", "UNKNOWN", "AUTO">> >>

BurstInput == BurstInputs[(clock % Len(BurstInputs)) + 1]

InitTrunc ==
  /\ Init
  /\ file = NoFile

Hour ==
  /\ call.op # "tick"
  /\ clock' = clock + 1
  /\ call' = [op |-> "tick"]
  /\ result' = [status |-> "none"]
  /\ applied' = None
  /\ UNCHANGED <<dir, min_days, file, instance, cache, wallpaper_history, lock_screen_history, added>>

WithinBurst ==
  /\ clock <= MaxBurst
  /\ wallpaper_history = <<>> \/ lock_screen_history = <<>>
  /\ cache.wallpaper_history = <<>> \/ cache.lock_screen_history = <<>>
  /\ "saved" \in DOMAIN result => result.saved = "ok"

NextTrunc ==
  /\ \/ Hour
     \/ call.op = "none" /\ NewRotator({"a.jpg", "n.txt"})
     \/ call.op = "none" /\ NewCache
     \/ call.op = "tick" /\ select_next_wallpaper(1)
     \/ call.op = "tick" /\ select_next_lock_screen(1)
     \/ call.op = "tick" /\ add_wallpaper_to_history(BurstInput[1], BurstInput[2], BurstInput[3])
     \/ call.op = "tick" /\ add_lock_screen_to_history(BurstInput[1], BurstInput[2], BurstInput[3])
  /\ WithinBurst'
  /\ UNCHANGED <<procs, writes>>

SpecTrunc == InitTrunc /\ [][NextTrunc]_vars

\* --------------------------------------------- the functions on their own
\* The module-level functions of core.py applied to arguments of their whole
\* (bounded) domain, one application in a run; `call` holds the arguments,
\* `result` the value returned.
Value(v) == [status |-> "returned", value |-> v]

\* Image sizes: unreadable, or width x height.
Sides == (1..MaxSide) \cup {300, 600}
Sizes == {<<>>} \cup (Sides \X Sides)

Instants == 0..MaxInstant

Apply(c, r) ==
  /\ call.op = "none"
  /\ call' = c
  /\ result' = r
  /\ UNCHANGED <<clock, dir, min_days, file, instance, cache, wallpaper_history,
                 lock_screen_history, added, applied, procs, writes>>

Call_get_scaling_mode ==
  \E size \in Sizes :
    Apply([op |-> "get_scaling_mode", size |-> size], Value(scaling_mode_of(size)))

Call_adjust_rotation_time ==
  \E t \in Instants :
    Apply([next_rotation_dt |-> t, op |-> "_adjust_rotation_time"],
          Value(adjust_rotation_time(t)))

\* Tracks a store can hold after loading a file: records in any order of
\* their timestamps.
TrackRecords(type) ==
  { WallpaperChange(p, t, type, "MANUAL", "FIT") : p \in {"a.jpg", "b.PNG"}, t \in 0..MaxStamp }

Tracks(type) ==
  UNION { [1..n -> TrackRecords(type)] : n \in 0..MaxTrack }

Call_last_wallpaper ==
  \E h \in Tracks("WALLPAPER") :
    Apply([history |-> h, op |-> "last_wallpaper"], Value(last_change(h, "WALLPAPER")))

Call_last_lock_screen ==
  \E h \in Tracks("LOCK_SCREEN") :
    Apply([history |-> h, op |-> "last_lock_screen"], Value(last_change(h, "LOCK_SCREEN")))

Call_next_rotation_dt ==
  \E last_change_dt \in Instants, n \in MinDays :
    Apply([last_change |-> last_change_dt, min_days |-> n, op |-> "next_rotation_dt"],
          Value(next_rotation_dt(last_change_dt, n)))

\* Every content an image directory can have.
Listings == SUBSET { e.path : e \in DirEntries }

Call_get_available_images ==
  \E image_dir \in Listings :
    Apply([image_dir |-> image_dir, op |-> "get_available_images"],
          Value(get_available_images(image_dir)))

InitFn == Init /\ file = NoFile

NextFn ==
  \/ Call_get_scaling_mode
  \/ Call_adjust_rotation_time
  \/ Call_last_wallpaper
  \/ Call_last_lock_screen
  \/ Call_get_available_images
  \/ Call_next_rotation_dt

SpecFn == InitFn /\ [][NextFn]_vars

\* ------------------------------------------- two processes, one cache file
\* Two processes of the same kind (two rotators, or two stores) run on one
\* cache file with nothing between them but the file system: each loads the
\* file in its constructor and later records one entry and saves.  A step of
\* a process is one call; steps of the two interleave freely.
Procs == {1, 2}

Kinds == {"WallpaperRotator", "WallpaperCache"}

\* The two lists a process holds in memory.
Lists(kind, c) ==
  [WALLPAPER |-> c.wallpaper_history, LOCK_SCREEN |-> c.lock_screen_history]

\* The constructor of process p: WallpaperRotator.__init__ or
\* WallpaperCache.__init__ on the file as it is now.
ProcLoad(p) ==
  /\ procs[p].pc = "start"
  /\ IF procs[p].kind = "WallpaperRotator"
     THEN LET ld == Rotator_load_cache(file)
          IN /\ file' = ld.file
             /\ procs' = [procs EXCEPT ![p] = [kind |-> @.kind, pc |-> "loaded",
                                               cache |-> ld.cache,
                                               loaded |-> Lists(@.kind, ld.cache)]]
     ELSE LET c == Construct(file)
          IN /\ file' = c.file
             /\ procs' = [procs EXCEPT ![p] =
                            IF c.raised
                            THEN [kind |-> @.kind, pc |-> "raised"]
                            ELSE [kind |-> @.kind, pc |-> "loaded",
                                  cache |-> [wallpaper_history |-> c.wallpaper_history,
                                             lock_screen_history |-> c.lock_screen_history],
                                  loaded |-> Lists(@.kind, c)]]
  /\ UNCHANGED <<clock, dir, min_days, instance, cache, wallpaper_history,
                 lock_screen_history, added, applied, call, result, writes>>

\* Mutant of ProcMemory: the process reads the file again before it records.
ProcMemory_reloaded(p) ==
  IF procs[p].kind = "WallpaperRotator"
  THEN Rotator_load_cache(file).cache
  ELSE LET c == Construct(file)
       IN IF c.raised THEN procs[p].cache
          ELSE [wallpaper_history |-> c.wallpaper_history,
                lock_screen_history |-> c.lock_screen_history]

\* What process p appends to: self.cache / self._wallpaper_history as its
\* constructor left it.
ProcMemory(p) == procs[p].cache

\* Every way process p can record one entry on a track and save: for a
\* rotator select_next_*, for a store add_*_to_history.
ProcRecordOutcomes(p, track) ==
  IF procs[p].kind = "WallpaperRotator"
  THEN { [cache |-> out.cache, file |-> out.file, saved |-> out.saved,
          entry |-> [path |-> out.selected, timestamp |-> clock]] :
         out \in SelectOutcomes(dir, ProcMemory(p), file, track, min_days) }
  ELSE { LET change == WallpaperChange(ao[1][1], clock, track, ao[1][2], ao[1][3])
             c == [ProcMemory(p) EXCEPT ![HistoryKey(track)] = LastEntries(Append(@, change))]
         IN [cache |-> c,
             file |-> WriteFile(file, cache_data(c.wallpaper_history, c.lock_screen_history),
                                ao[2]),
             saved |-> ao[2],
             entry |-> [path |-> change.path, timestamp |-> change.timestamp]] :
         ao \in AddInputs \X SaveOutcomes }

\* select_next_* / add_*_to_history of process p
ProcRecord(p, track) ==
  /\ procs[p].pc = "loaded"
  /\ \E out \in ProcRecordOutcomes(p, track) :
       /\ file' = out.file
       /\ procs' = [procs EXCEPT ![p].pc = "saved", ![p].cache = out.cache]
       /\ writes' = Append(writes, [proc |-> p, track |-> track, saved |-> out.saved,
                                    entry |-> out.entry,
                                    loaded |-> { q \in Procs : procs[q].pc # "start" }])
  /\ UNCHANGED <<clock, dir, min_days, instance, cache, wallpaper_history,
                 lock_screen_history, added, applied, call, result>>

ProcTick ==
  /\ Tick
  /\ clock' <= MaxClock
  /\ UNCHANGED <<procs, writes>>

InitRace ==
  /\ clock = 0
  /\ dir = {"a.jpg", "b.PNG"}
  /\ min_days = 1
  /\ file \in InitFiles
  /\ instance = "none"
  /\ cache = Rotator_create_new_cache
  /\ wallpaper_history = <<>>
  /\ lock_screen_history = <<>>
  /\ added = [WALLPAPER |-> <<>>, LOCK_SCREEN |-> <<>>]
  /\ applied = None
  /\ call = [op |-> "none"]
  /\ result = [status |-> "none"]
  /\ \E kind \in Kinds : procs = [p \in Procs |-> [kind |-> kind, pc |-> "start"]]
  /\ writes = <<>>

NextRace ==
  \/ ProcTick
  \/ \E p \in Procs : ProcLoad(p)
  \/ \E p \in Procs, track \in WallpaperType : ProcRecord(p, track)

SpecRace == InitRace /\ [][NextRace]_vars

\* --------------------------------------------- a scheduled rotation, retried
\* The scheduled task: time passes hour by hour and rotate_wallpaper is
\* run without force on a directory that holds an image, again and again,
\* until a run has rotated.  It starts at any hour of a day, with no history
\* or with a wallpaper set at that very hour.
LiveHorizon == DayLength * (MaxMinDays + 2)

LiveDir == {"a.jpg", "n.txt"}

Rotated ==
  /\ call.op = "rotate_wallpaper"
  /\ result.status \in {"returned", "exited"}

InitLive ==
  /\ clock \in 0..(DayLength - 1)
  /\ dir = LiveDir
  /\ min_days \in MinDays
  /\ file \in { NoFile,
                 json_dump(Rotator_record(Rotator_create_new_cache, "WALLPAPER", "a.jpg", clock)) }
  /\ instance = "none"
  /\ cache = Rotator_create_new_cache
  /\ wallpaper_history = <<>>
  /\ lock_screen_history = <<>>
  /\ added = [WALLPAPER |-> <<>>, LOCK_SCREEN |-> <<>>]
  /\ applied = None
  /\ call = [op |-> "none"]
  /\ result = [status |-> "none"]
  /\ procs = <<>>
  /\ writes = <<>>

LiveTick ==
  /\ ~Rotated
  /\ clock < LiveHorizon
  /\ clock' = clock + 1
  /\ UNCHANGED <<dir, min_days, file, instance, cache, wallpaper_history,
                 lock_screen_history, added, applied, call, result, procs, writes>>

LiveRotate ==
  /\ ~Rotated
  /\ rotate_wallpaper(LiveDir, min_days, FALSE)
  /\ UNCHANGED <<procs, writes>>

NextLive == LiveTick \/ LiveRotate

SpecLive ==
  /\ InitLive
  /\ [][NextLive]_vars
  /\ WF_vars(LiveTick)
  /\ WF_vars(LiveRotate)

\* ================================================================ claims
Selects == {"select_next_wallpaper", "select_next_lock_screen"}
Rotates == {"rotate_wallpaper", "rotate_lock_screen"}
Adds == {"add_wallpaper_to_history", "add_lock_screen_to_history"}

TrackOfOp(op) ==
  IF op \in {"select_next_wallpaper", "rotate_wallpaper", "add_wallpaper_to_history"}
  THEN "WALLPAPER" ELSE "LOCK_SCREEN"

Last(s) == s[Len(s)]
Front(s) == SubSeq(s, 1, Len(s) - 1)
Saved(r) == Get(r, "saved", "none")

\* The rotator's cache an operation starts from: rotate_* loads it from the
\* file, select_next_* uses the one it holds.
CacheBefore(op) == IF op \in Rotates THEN Rotator_load_cache(file).cache ELSE cache

\* Paths of the entries of history within n days of time now.
Recent(history, now, n) ==
  { history[i].path : i \in { j \in 1..Len(history) :
        now - history[j].timestamp < n * DayLength } }

\* C1: with at least one supported image in the directory, select_next_wallpaper
\* and select_next_lock_screen return, whatever the history, without error a
\* path of the directory's candidate set.
C1_SelectReturnsCandidate ==
  (call.op \in Selects /\ get_available_images(dir) # {}) =>
     /\ result.status = "returned"
     /\ result.value \in get_available_images(dir)

\* C1 witness: a selection returned although every candidate was in the
\* recency window of the history it started from (the fallback).
C1_Witness ==
  /\ call.op = "select_next_wallpaper"
  /\ result.status = "returned"
  /\ call.min_days > 0
  /\ get_available_images(dir) \subseteq
       Recent(Front(cache.wallpaper_history), clock, call.min_days)

\* C2: when some candidate is not in the recent set of the track (paths of
\* entries with now - timestamp < min_days days), the selected image is not
\* in the recent set.
C2_SelectAvoidsRecent ==
  [][ (call'.op \in Selects \cup Rotates /\ result'.status \in {"returned", "exited"}) =>
        LET recent == Recent(CacheBefore(call'.op)[HistoryKey(TrackOfOp(call'.op))],
                             clock, call'.min_days)
        IN (get_available_images(dir) \ recent # {}) => result'.value \notin recent ]_vars

\* C2 witness: a selection made while one candidate was recent and another
\* was not.
C2_Witness ==
  /\ call.op = "select_next_lock_screen"
  /\ result.status = "returned"
  /\ LET recent == Recent(Front(cache.lock_screen_history), clock, call.min_days)
     IN /\ recent \cap get_available_images(dir) # {}
        /\ get_available_images(dir) \ recent # {}

\* The gate instant of a track whose history is h: adjust(last change + N days).
GateInstant(h, n) == adjust_rotation_time(Last(h).timestamp + n * DayLength)

\* C3: rotate with force = false on a track with history, before
\* adjust(last change + min_days days), is skipped: nothing is selected, the
\* histories and the cache file stay as they were, the setter is not called.
C3_GateSkipsWithoutEffect ==
  [][ LET c == Rotator_load_cache(file).cache
          h == c[HistoryKey(TrackOfOp(call'.op))]
      IN (/\ call'.op \in Rotates
          /\ ~call'.force
          /\ h # <<>>
          /\ clock < GateInstant(h, call'.min_days)) =>
           /\ result'.status = "skipped"
           /\ file' = file
           /\ applied' = None
           /\ cache'.wallpaper_history = c.wallpaper_history
           /\ cache'.lock_screen_history = c.lock_screen_history ]_vars

\* C3 witness: an unforced rotation was skipped on a track with history.
C3_Witness ==
  /\ call.op = "rotate_wallpaper"
  /\ ~call.force
  /\ result.status = "skipped"
  /\ cache.wallpaper_history # <<>>
  /\ clock > Last(cache.wallpaper_history).timestamp

\* C4: rotate with force = true on a directory with an image selects and
\* appends exactly one entry (a candidate, at the current time) to the track,
\* whatever the time since the last change.
C4_ForceAlwaysRotates ==
  [][ LET track == TrackOfOp(call'.op)
          h == Rotator_load_cache(file).cache[HistoryKey(track)]
          entry == [path |-> result'.value, timestamp |-> clock]
      IN (call'.op \in Rotates /\ call'.force /\ get_available_images(dir) # {}) =>
           /\ result'.status \in {"returned", "exited"}
           /\ result'.value \in get_available_images(dir)
           /\ applied' # None
           /\ cache'[HistoryKey(track)] =
                IF Len(h) < HistoryLimit THEN Append(h, entry) ELSE Tail(Append(h, entry)) ]_vars

\* C4 witness: a forced rotation recorded an entry with no time elapsed since
\* the previous change of the track.
C4_Witness ==
  /\ call.op = "rotate_wallpaper"
  /\ call.force
  /\ call.min_days > 0
  /\ Len(cache.wallpaper_history) >= 2
  /\ Last(Front(cache.wallpaper_history)).timestamp = clock
  /\ Last(cache.wallpaper_history).timestamp = clock

\* The list of a track as the current instance holds it.
TrackNow(track) ==
  IF instance = "WallpaperCache"
  THEN (IF track = "WALLPAPER" THEN wallpaper_history ELSE lock_screen_history)
  ELSE (IF track = "WALLPAPER" THEN cache.wallpaper_history ELSE cache.lock_screen_history)

\* C5: a track holds at most 100 entries and always equals the most recently
\* added min(n, 100) entries, fields and order kept (the oldest is evicted).
C5_TrackIsLastHundredAdded ==
  \A track \in WallpaperType :
    LET h == TrackNow(track)
        a == added[track]
        n == Len(a)
        k == IF n < HistoryLimit THEN n ELSE HistoryLimit
    IN /\ Len(h) = k
       /\ \A i \in 1..k : h[i] = a[n - k + i]

\* C5 witness: 105 adds from empty left exactly the last 100.
C5_Witness ==
  /\ instance = "WallpaperCache"
  /\ Len(added.WALLPAPER) = HistoryLimit + 5
  /\ Len(wallpaper_history) = HistoryLimit
  /\ wallpaper_history[1] = added.WALLPAPER[6]
  /\ wallpaper_history[1].timestamp = 6

\* A change record as the file stores it: every field but the type.
Stored(change) ==
  [ path |-> change.path, timestamp |-> change.timestamp,
    source |-> change.source, scaling_mode |-> change.scaling_mode ]

StoredList(h) == JList([ i \in 1..Len(h) |-> Stored(h[i]) ])

\* C6: when an add-to-history call (or a selection that records a pick) has
\* returned and its write did not fail, the file's lists are the serialization
\* of the in-memory tracks.
C6_MutationIsPersisted ==
  /\ (call.op \in Adds /\ Saved(result) = "ok") =>
        /\ file.exists /\ file.json = "object"
        /\ file.doc.wallpaper_history = StoredList(wallpaper_history)
        /\ file.doc.lock_screen_history = StoredList(lock_screen_history)
  /\ (call.op \in Selects \cup Rotates /\ Saved(result) = "ok") =>
        /\ file.exists /\ file.json = "object"
        /\ file.doc.wallpaper_history = JList(cache.wallpaper_history)
        /\ file.doc.lock_screen_history = JList(cache.lock_screen_history)

\* C6 witness: an add returned with its write done, a second entry in memory.
C6_Witness ==
  /\ call.op = "add_wallpaper_to_history"
  /\ Saved(result) = "ok"
  /\ Len(wallpaper_history) = 2

\* An entry of the file that from_dict can read.
EntryOk(e) ==
  /\ "path" \in DOMAIN e
  /\ "timestamp" \in DOMAIN e
  /\ "source" \in DOMAIN e => e.source \in ChangeSource
  /\ "scaling_mode" \in DOMAIN e => e.scaling_mode \in ScalingMode

\* A cache file that is unparseable, not an object, lacks a key, holds a key
\* of the wrong type or an entry from_dict cannot read.
Corrupt(f) ==
  /\ f.exists
  /\ ~ /\ f.json = "object"
       /\ \A k \in {"wallpaper_history", "lock_screen_history"} :
            /\ k \in DOMAIN f.doc
            /\ IsList(f.doc[k])
            /\ \A i \in 1..Len(f.doc[k].items) : EntryOk(f.doc[k].items[i])

\* C7: for every corrupt or structurally invalid cache file, constructing the
\* store does not raise, has_wallpaper_history() is then false, and a following
\* add_wallpaper_to_history returns without raising.
C7_CorruptFileLoadsEmpty ==
  [][ /\ (call'.op = "WallpaperCache" /\ Corrupt(file)) =>
            /\ result'.status = "constructed"
            /\ wallpaper_history' = <<>>
      /\ call'.op = "add_wallpaper_to_history" => result'.status = "returned" ]_vars

\* C8: adding to one track leaves the other track unchanged, in memory and as
\* written to the file.
C8_TracksIndependent ==
  [][ /\ call'.op = "add_wallpaper_to_history" =>
            /\ lock_screen_history' = lock_screen_history
            /\ Saved(result') = "ok" =>
                 file'.doc.lock_screen_history = StoredList(lock_screen_history)
      /\ call'.op = "add_lock_screen_to_history" =>
            /\ wallpaper_history' = wallpaper_history
            /\ Saved(result') = "ok" =>
                 file'.doc.wallpaper_history = StoredList(wallpaper_history)
      /\ call'.op = "select_next_wallpaper" =>
            /\ cache'.lock_screen_history = cache.lock_screen_history
            /\ cache'.last_lock_screen = cache.last_lock_screen
            /\ cache'.last_lock_screen_change = cache.last_lock_screen_change
            /\ Saved(result') = "ok" =>
                 file'.doc.lock_screen_history = JList(cache.lock_screen_history)
      /\ call'.op = "select_next_lock_screen" =>
            /\ cache'.wallpaper_history = cache.wallpaper_history
            /\ cache'.last_wallpaper = cache.last_wallpaper
            /\ cache'.last_wallpaper_change = cache.last_wallpaper_change
            /\ Saved(result') = "ok" =>
                 file'.doc.wallpaper_history = JList(cache.wallpaper_history) ]_vars

\* C8 witness: an entry was added to the lock-screen track while the wallpaper
\* track held one, and the file was written.
C8_Witness ==
  \/ /\ call.op = "add_lock_screen_to_history"
     /\ Saved(result) = "ok"
     /\ wallpaper_history # <<>>
  \/ /\ call.op = "select_next_lock_screen"
     /\ Saved(result) = "ok"
     /\ cache.wallpaper_history # <<>>

\* C9: saving the store and constructing a store from the written file gives,
\* in each track and in order, records with the same path, timestamp, source
\* and scaling_mode and the track's type; saving that store writes the same file.
C9_RoundTrip ==
  instance = "WallpaperCache" =>
    LET f == cache_data(wallpaper_history, lock_screen_history)
        c == Construct(f)
        Same(h, r, _type) ==
          /\ Len(r) = Len(h)
          /\ \A i \in 1..Len(h) :
               /\ r[i].path = h[i].path
               /\ r[i].timestamp = h[i].timestamp
               /\ r[i].source = h[i].source
               /\ r[i].scaling_mode = h[i].scaling_mode
               /\ r[i].type = _type
    IN /\ ~c.raised
       /\ c.file = f
       /\ Same(wallpaper_history, c.wallpaper_history, "WALLPAPER")
       /\ Same(lock_screen_history, c.lock_screen_history, "LOCK_SCREEN")
       /\ cache_data(c.wallpaper_history, c.lock_screen_history) = f

\* C9 witness: a store constructed from the file a store saved, both tracks
\* holding an entry, one with a source and a scaling mode that are not defaults.
C9_Witness ==
  /\ call.op = "WallpaperCache"
  /\ instance = "WallpaperCache"
  /\ file = cache_data(wallpaper_history, lock_screen_history)
  /\ lock_screen_history # <<>>
  /\ \E i \in 1..Len(wallpaper_history) :
       /\ wallpaper_history[i].source = "MANUAL"
       /\ wallpaper_history[i].scaling_mode = "FIT"

\* C10: the scaling mode handed to the wallpaper setter is the scaling mode
\* stored in the history entry recorded for that selection.
C10_AppliedModeIsRecordedMode ==
  (applied # None /\ applied[1].target = "WALLPAPER") =>
     LET entry == Last(cache.wallpaper_history)
     IN /\ "scaling_mode" \in DOMAIN entry
        /\ entry.scaling_mode = applied[1].scaling_mode

\* C11: whenever the setter has been called by a rotation, the entry of that
\* selection (its path, the current time) is already the last entry of the
\* track and, unless the write failed, of the file; when the setter fails the
\* call ends there (one setter call, the process exits) and the entry stays.
C11_EntryRecordedBeforeApply ==
  applied # None =>
    LET track == applied[1].target
        h == cache[HistoryKey(track)]
    IN /\ call.op \in Rotates
       /\ h # <<>>
       /\ Last(h) = [path |-> applied[1].path, timestamp |-> clock]
       /\ cache[LastKey(track)] = Some(applied[1].path)
       /\ Saved(result) = "ok" => file = json_dump(cache)
       /\ result.status = (IF applied[1].ok THEN "returned" ELSE "exited")
       /\ result.value = applied[1].path

\* C11 witness: the setter failed after a second entry was recorded and written.
C11_Witness ==
  /\ applied # None
  /\ ~applied[1].ok
  /\ result.status = "exited"
  /\ Saved(result) = "ok"
  /\ Len(cache[HistoryKey(applied[1].target)]) = 2

\* A cache file the rotator's load discards: it exists and is not a JSON
\* object with the rotator's six keys.
RotatorDiscards(f) ==
  f.exists /\ ~(f.json = "object" /\ required_keys \subseteq DOMAIN f.doc)

\* A selection, or a rotation that was not gated out, on a directory without
\* a supported image.
SelectsFromNoImages ==
  /\ call'.op \in Selects \cup Rotates
  /\ result'.status # "skipped"
  /\ get_available_images(dir') = {}

C13_ScalingResolution ==
  call.op = "get_scaling_mode" =>
    /\ result.value \in {"FIT", "FILL"}
    /\ result.value = "FIT" <=> (Len(call.size) = 2 /\ call.size[1] < call.size[2])
    /\ call.size = <<300, 600>> => result.value = "FIT"
    /\ call.size = <<600, 300>> => result.value = "FILL"
    /\ call.size = <<>> => result.value = "FILL"

\* C13 witness: a square image resolved to FILL.
C13_Witness ==
  /\ call.op = "get_scaling_mode"
  /\ Len(call.size) = 2
  /\ call.size[1] = call.size[2]
  /\ result.value = "FILL"

\* C14: adjust(t) lies on a day boundary; it is the start of t's day when the
\* hour of t is below 18 and the start of the following day otherwise.
C14_AdjustSnapsToDayBoundary ==
  call.op = "_adjust_rotation_time" =>
    LET t == call.next_rotation_dt
        day == t \div 24
        h == t - 24 * day
        r == result.value
    IN /\ r % 24 = 0
       /\ h < 18 => r = 24 * day
       /\ h >= 18 => r = 24 * (day + 1)

\* C14 witness: an instant at 18:00 of the second day snapped to the third day.
C14_Witness ==
  /\ call.op = "_adjust_rotation_time"
  /\ call.next_rotation_dt = 42
  /\ result.value = 48

\* The cache file gives the rotator no history for the track: there is no
\* file, or the load discards it, or the track's list in it is empty.
NoHistoryFor(f, track) ==
  \/ ~f.exists
  \/ RotatorDiscards(f)
  \/ f.doc[HistoryKey(track)].items = <<>>

C16_FailedWriteKeepsMemoryAndFile ==
  [][ /\ (call'.op \in Adds /\ Saved(result') # "ok") =>
            LET change == WallpaperChange(call'.path, clock, TrackOfOp(call'.op),
                                          call'.source, call'.scaling_mode)
            IN /\ result'.status = "returned"
               /\ IF call'.op = "add_wallpaper_to_history"
                  THEN /\ wallpaper_history' = Append(wallpaper_history, change)
                       /\ last_wallpaper' = change
                  ELSE /\ lock_screen_history' = Append(lock_screen_history, change)
                       /\ last_lock_screen' = change
               /\ file' = file
      /\ (call'.op \in Selects /\ result'.status = "returned" /\ Saved(result') # "ok") =>
            /\ Last(cache'[HistoryKey(TrackOfOp(call'.op))]) =
                 [path |-> result'.value, timestamp |-> clock]
            /\ cache'[LastKey(TrackOfOp(call'.op))] = Some(result'.value)
            /\ file' = file ]_vars

\* C17: on a non-empty track last_wallpaper / last_lock_screen return a
\* record of the track that no record of it exceeds in timestamp, the first
\* such record in list order when several share the maximum; on an empty
\* track they return the sentinel (path "", timestamp 0, source UNKNOWN,
\* scaling_mode AUTO) of the track's type.
C17_LastIsMaxTimestamp ==
  call.op \in {"last_wallpaper", "last_lock_screen"} =>
    LET h == call.history
        r == result.value
        type == IF call.op = "last_wallpaper" THEN "WALLPAPER" ELSE "LOCK_SCREEN"
    IN /\ result.status = "returned"
       /\ h = <<>> => r = [path |-> "", timestamp |-> 0, type |-> type,
                           source |-> "UNKNOWN", scaling_mode |-> "AUTO"]
       /\ h # <<>> =>
            \E i \in 1..Len(h) :
              /\ r = h[i]
              /\ \A j \in 1..Len(h) : h[j].timestamp <= r.timestamp
              /\ \A j \in 1..(i - 1) : h[j].timestamp < r.timestamp

\* C17 witness: the maximum is shared by two records with different paths and
\* is followed by an older record; the first of the two is returned.
C17_Witness ==
  /\ call.op = "last_wallpaper"
  /\ Len(call.history) = 3
  /\ call.history[1].timestamp = 2 /\ call.history[1].path = "a.jpg"
  /\ call.history[2].timestamp = 2 /\ call.history[2].path = "b.PNG"
  /\ call.history[3].timestamp = 1 /\ call.history[3].path = "b.PNG"
  /\ result.value.path = "a.jpg"

\* The scaling modes AUTO resolves to, and the one given explicitly.
ResolvedModes == {"FILL", "FIT", "STRETCH"}

\* C18: no record of the store, and no entry of a cache file the store has
\* written, carries AUTO: every scaling_mode is FILL, FIT or STRETCH.
C18_NoPersistedAuto ==
  instance = "WallpaperCache" =>
    /\ \A i \in 1..Len(wallpaper_history) :
         wallpaper_history[i].scaling_mode \in ResolvedModes
    /\ \A i \in 1..Len(lock_screen_history) :
         lock_screen_history[i].scaling_mode \in ResolvedModes
    /\ (call.op \in Adds \cup {"save"} /\ Saved(result) = "ok") =>
         \A k \in {"wallpaper_history", "lock_screen_history"} :
           \A i \in 1..Len(file.doc[k].items) :
             file.doc[k].items[i].scaling_mode \in ResolvedModes

\* A track whose timestamps never decrease along the list.
NonDecreasing(h) ==
  \A i \in 1..Len(h) : \A j \in 1..Len(h) :
    i < j => h[i].timestamp <= h[j].timestamp

\* C19: in every reachable state the timestamps of each history track, of the
\* store and of the rotator's cache, are non-decreasing in insertion order.
C19_TimestampsNonDecreasing ==
  /\ NonDecreasing(wallpaper_history)
  /\ NonDecreasing(lock_screen_history)
  /\ NonDecreasing(cache.wallpaper_history)
  /\ NonDecreasing(cache.lock_screen_history)

\* C19 witness: an add appended a second entry, later than the first.
C19_Witness ==
  /\ call.op = "add_wallpaper_to_history"
  /\ Len(wallpaper_history) = 2
  /\ wallpaper_history[1].timestamp < wallpaper_history[2].timestamp

\* C20: get_next_rotation_time(N, type) is answered from the track named by
\* type: for a track with history it is adjust(timestamp of the track's last
\* entry + N days), the instant the gate of rotate compares the current time
\* against; for a track without history there is no such instant.
C20_NextRotationTimeIsGateInstant ==
  call.op = "get_next_rotation_time" =>
    LET h == TrackNow(call.wallpaper_type)
    IN /\ result.status = "returned"
       /\ h = <<>> => result.value = None
       /\ h # <<>> => result.value = Some(GateInstant(h, call.min_days_between_repeats))

\* C20 witness: the lock-screen track is asked with N = 2 after an entry made
\* at hour 20: 20 + 48 = 68 is snapped up to 72; the other track is empty.
C20_Witness ==
  /\ call.op = "get_next_rotation_time"
  /\ call.wallpaper_type = "LOCK_SCREEN"
  /\ call.min_days_between_repeats = 2
  /\ wallpaper_history = <<>>
  /\ lock_screen_history # <<>>
  /\ Last(lock_screen_history).timestamp = 20
  /\ result.value = Some(72)

\* A cache file the rotator's load cannot accept: unparseable, not an object,
\* or an object without one of the required keys.
RotatorMismatch(f) ==
  /\ f.exists
  /\ ~ (f.json = "object" /\ required_keys \subseteq DOMAIN f.doc)

\* C21: constructing the store or the rotator on a cache file that fails to
\* parse or does not have the expected structure removes the file and leaves
\* both tracks empty.
C21_MismatchDiscardsFile ==
  [][ /\ (call'.op = "WallpaperCache" /\ Corrupt(file)) =>
            /\ file' = NoFile
            /\ wallpaper_history' = <<>>
            /\ lock_screen_history' = <<>>
      /\ (call'.op = "WallpaperRotator" /\ RotatorMismatch(file)) =>
            /\ file' = NoFile
            /\ cache'.wallpaper_history = <<>>
            /\ cache'.lock_screen_history = <<>> ]_vars

\* The entries of one list of the file, as the store's load hands them to
\* from_dict (the empty list for a parsed file whose key is missing or not a
\* list).
FileEntries(f, k) ==
  IF f.exists /\ f.json = "object" /\ k \in DOMAIN f.doc /\ IsList(f.doc[k])
  THEN f.doc[k].items
  ELSE <<>>

\* Record r is entry e read with the defaults: source UNKNOWN and scaling_mode
\* AUTO when the entry does not name them.
ReadWithDefaults(e, r) ==
  /\ "source" \notin DOMAIN e => r.source = "UNKNOWN"
  /\ "scaling_mode" \notin DOMAIN e => r.scaling_mode = "AUTO"

\* C22: deserializing the entries of a parsed cache file never raises out of
\* store construction, whatever the entries hold, and every record read has
\* the defaults for the fields its entry lacks.
C22_FromDictNeverRaises ==
  [][ (call'.op = "WallpaperCache" /\ file.exists /\ file.json = "object") =>
        /\ result'.status = "constructed"
        /\ Len(wallpaper_history') = Len(FileEntries(file, "wallpaper_history"))
        /\ Len(lock_screen_history') = Len(FileEntries(file, "lock_screen_history"))
        /\ \A i \in 1..Len(wallpaper_history') :
             ReadWithDefaults(FileEntries(file, "wallpaper_history")[i], wallpaper_history'[i])
        /\ \A i \in 1..Len(lock_screen_history') :
             ReadWithDefaults(FileEntries(file, "lock_screen_history")[i], lock_screen_history'[i])
    ]_vars

\* The extension of a path in lower case.
lower_suffix(p) ==
  CASE Entry(p).suffix \in {".jpg", ".Jpg"} -> ".jpg"
    [] Entry(p).suffix = ".jpeg" -> ".jpeg"
    [] Entry(p).suffix = ".PNG" -> ".png"
    [] Entry(p).suffix = ".bmp" -> ".bmp"
    [] OTHER -> ".txt"

\* C23: the candidates are exactly the regular files directly inside the
\* image directory whose extension, letter case ignored, is .jpg, .jpeg, .png
\* or .bmp; files of subdirectories are not among them.
C23_CandidatesIgnoreCase ==
  call.op = "get_available_images" =>
    result.value = { p \in call.image_dir :
                       /\ Entry(p).is_file
                       /\ ~Entry(p).nested
                       /\ lower_suffix(p) \in supported_formats }

\* Path and timestamp of every entry of a list.
PathsAndTimes(h) == [ i \in 1..Len(h) |-> [path |-> h[i].path, timestamp |-> h[i].timestamp] ]

\* Both processes had loaded the file before the first save, and both saves
\* wrote their document.
BothLoadedThenBothSaved ==
  /\ Len(writes) = 2
  /\ writes[1].loaded = Procs
  /\ writes[1].saved = "ok"
  /\ writes[2].saved = "ok"

\* C24: when two processes both load the cache file before either saves and
\* each then records one entry and saves, the file afterwards is the later
\* saver's document: each track is what that process had loaded plus its own
\* new entry; the entry of the earlier saver is not in it.
C24_LastWriterWins ==
  BothLoadedThenBothSaved =>
    LET w == writes[2]
        base == procs[w.proc].loaded
    IN /\ file.exists /\ file.json = "object"
       /\ \A track \in WallpaperType :
            PathsAndTimes(FileEntries(file, HistoryKey(track))) =
              IF track = w.track
              THEN Append(PathsAndTimes(base[track]), w.entry)
              ELSE PathsAndTimes(base[track])

\* C24 witness: the two processes recorded different entries on the wallpaper
\* track, and the file holds one entry more than was loaded, not two.
C24_Witness ==
  /\ BothLoadedThenBothSaved
  /\ writes[1].track = "WALLPAPER"
  /\ writes[2].track = "WALLPAPER"
  /\ writes[1].entry # writes[2].entry
  /\ \A i \in 1..Len(FileEntries(file, "wallpaper_history")) :
       PathsAndTimes(FileEntries(file, "wallpaper_history"))[i] # writes[1].entry
  /\ Len(FileEntries(file, "wallpaper_history")) =
       Len(procs[writes[1].proc].loaded.WALLPAPER) + 1

\* C25: a save is atomic: a call that saves on top of a file that is absent
\* or complete never leaves a partially written document behind, whether or
\* not the write succeeds.
C25_SaveIsAtomic ==
  [][ (call'.op \in Adds \cup Selects \cup {"save"} /\ file # Unparseable) =>
        file' # Unparseable ]_vars

\* C26: for a last change at L and N days between repeats the gate's instant
\* lies after L + N days - 18 hours and not after L + N days + 6 hours; so
\* for N >= 1 it lies more than 6 hours after L.
C26_GateInstantBounds ==
  call.op = "next_rotation_dt" =>
    LET raw == call.last_change + call.min_days * 24
    IN /\ raw - 18 < result.value
       /\ result.value <= raw + 6
       /\ call.min_days >= 1 => result.value > call.last_change + 6

\* C26 witness: with N = 1 a change at 17:00 of day 0 allows the next
\* rotation from 0:00 of day 1, seven hours later and less than one full day.
C26_Witness ==
  /\ call.op = "next_rotation_dt"
  /\ call.last_change = 17
  /\ call.min_days = 1
  /\ result.value = 24
  /\ result.value < call.last_change + call.min_days * 24

\* C27: after an add_*_to_history call on a store that started without
\* history, the last accessor of that track is the record the call appended,
\* and last path / last change are that record's path and timestamp, also
\* when the previous add got the same clock value.
C27_LastIsMostRecentAdd ==
  /\ call.op = "add_wallpaper_to_history" =>
        /\ last_wallpaper = Last(wallpaper_history)
        /\ last_wallpaper_path = call.path
        /\ last_wallpaper_change = clock
  /\ call.op = "add_lock_screen_to_history" =>
        /\ last_lock_screen = Last(lock_screen_history)
        /\ last_lock_screen_path = call.path
        /\ last_lock_screen_change = clock

\* Cache c with everything about the other track than `track` erased.
OwnTrackOnly(c, track) ==
  IF track = "WALLPAPER"
  THEN [c EXCEPT !.last_lock_screen = None, !.last_lock_screen_change = None,
                 !.lock_screen_history = <<>>]
  ELSE [c EXCEPT !.last_wallpaper = None, !.last_wallpaper_change = None,
                 !.wallpaper_history = <<>>]

\* C28: what rotate does on a track is decided by that track alone: it skips
\* exactly when the gate skips on the cache with the other track erased, and
\* what it selects is eligible by the recency filter of its own history; the
\* state of the other track changes neither.
C28_TracksGateIndependently ==
  [][ call'.op \in Rotates =>
        LET track == TrackOfOp(call'.op)
            own == OwnTrackOnly(Rotator_load_cache(file).cache, track)
            own_history == IF track = "WALLPAPER" THEN own.wallpaper_history
                                                  ELSE own.lock_screen_history
        IN /\ result'.status = "skipped" <=>
                GateSkips(own, track, call'.min_days, call'.force)
           /\ result'.status \in {"returned", "exited"} =>
                result'.value \in eligible_images(get_available_images(dir'),
                                     recent_paths(own_history, clock, call'.min_days)) ]_vars

\* C28 witness: an unforced wallpaper rotation went through at a time when
\* the lock screen had changed too recently for its own gate to open.
C28_Witness ==
  /\ call.op = "rotate_wallpaper"
  /\ ~call.force
  /\ call.min_days >= 1
  /\ result.status = "returned"
  /\ cache.lock_screen_history # <<>>
  /\ clock < GateInstant(cache.lock_screen_history, call.min_days)

\* C29: when time keeps passing and rotate_wallpaper is run without force
\* again and again on a directory with an image, some run is eventually not
\* skipped: it selects an image and records a new entry.
C29_GateOpensEventually ==
  <>(Rotated /\ cache.wallpaper_history # <<>> /\ Last(cache.wallpaper_history).timestamp = clock)

\* C29 witness: a run rotated two days or more after the previous change,
\* the gate having kept the earlier runs out.
C29_Witness ==
  /\ Rotated
  /\ min_days = 2
  /\ Len(cache.wallpaper_history) = 2
  /\ cache.wallpaper_history[2].timestamp >= cache.wallpaper_history[1].timestamp + 30

\* The last_* keys of a track of the rotator's cache agree with its history
\* list: both None for an empty list, else path and timestamp of the final
\* entry.
LastKeysAgree(c, last_key, change_key, history_key) ==
  IF c[history_key] = <<>>
  THEN c[last_key] = None /\ c[change_key] = None
  ELSE /\ c[last_key] = Some(Last(c[history_key]).path)
       /\ c[change_key] = Some(Last(c[history_key]).timestamp)

\* C30: in the rotator's cache, for each track, last image and last change
\* are the path and timestamp of the final entry of the track's history, and
\* they are None exactly when the history is empty.
C30_LastKeysMatchHistory ==
  instance = "WallpaperRotator" =>
    /\ LastKeysAgree(cache, "last_wallpaper", "last_wallpaper_change", "wallpaper_history")
    /\ LastKeysAgree(cache, "last_lock_screen", "last_lock_screen_change",
                     "lock_screen_history")

\* C30 witness: after two selections on the wallpaper track, of different
\* images at different times, with the lock-screen track still empty.
C30_Witness ==
  /\ call.op = "select_next_wallpaper"
  /\ Len(cache.wallpaper_history) = 2
  /\ cache.wallpaper_history[1].path # cache.wallpaper_history[2].path
  /\ cache.wallpaper_history[1].timestamp < cache.wallpaper_history[2].timestamp
  /\ cache.last_wallpaper = Some(cache.wallpaper_history[2].path)
  /\ cache.lock_screen_history = <<>>
  /\ cache.last_lock_screen = None

====
